---- MODULE Spec2Model ----
(***************************************************************************)
(* Model of buckets/mount.py (harvard-visionlab/buckets): the lifecycle of *)
(* rclone FUSE mounts of S3 buckets and of the symlinks that fan out over  *)
(* one mount point.                                                        *)
(*                                                                         *)
(* The model follows the Linux branches of the code (is_linux() true):     *)
(* `mountpoint -q` for the mount table, fusermount3/fusermount for the     *)
(* forced unmount.  Strings are sequences of one-character strings.        *)
(***************************************************************************)
EXTENDS Integers, Sequences, FiniteSets, TLC

----------------------------------------------------------------------------
(* Bucket names: _normalize_bucket_name                                    *)

Scheme == <<"s", "3", ":", "/", "/">>

Slash == "/"

StartsWith(s, p) == Len(s) >= Len(p) /\ SubSeq(s, 1, Len(p)) = p

\* str.replace("s3://", ""): every non-overlapping occurrence, scanning from
\* the left, is dropped; the result is not scanned again.
RECURSIVE replace(_)
replace(s) ==
    IF s = <<>> THEN <<>>
    ELSE IF StartsWith(s, Scheme)
         THEN replace(SubSeq(s, Len(Scheme) + 1, Len(s)))
         ELSE <<Head(s)>> \o replace(Tail(s))

\* str.strip("/"): every leading and every trailing "/" is dropped.
RECURSIVE lstrip(_)
lstrip(s) ==
    IF s # <<>> /\ Head(s) = Slash THEN lstrip(Tail(s)) ELSE s

RECURSIVE rstrip(_)
rstrip(s) ==
    IF s # <<>> /\ s[Len(s)] = Slash THEN rstrip(SubSeq(s, 1, Len(s) - 1)) ELSE s

strip(s) == rstrip(lstrip(s))

\* A plausible slip: only the scheme is removed, the slashes stay.
normalize_without_strip(bucket_name) == replace(bucket_name)

_normalize_bucket_name(bucket_name) == strip(replace(bucket_name))

----------------------------------------------------------------------------
(* The names the callers pass, and the places they denote                  *)

\* Spellings of two buckets, as callers write them.
RawNames ==
    { <<"a">>,
      <<"s", "3", ":", "/", "/", "a", "/">>,
      <<"b">> }

BucketIds == { _normalize_bucket_name(n) : n \in RawNames }

\* Directories that hold symlinks.  "cwd" is the working directory.
Roots == {"cwd", "r1", "r2"}

\* The root_dir argument: a directory, or None.
RootArgs == Roots \cup {"None"}

get_default_root == "cwd"

\* root_dir = Path(root_dir).expanduser() if root_dir else get_default_root()
ResolveRoot(root_dir) == IF root_dir = "None" THEN get_default_root ELSE root_dir

\* mount_point = get_mount_base() / bucket_name
MountPoint(bucket) == [kind |-> "mount_point", bucket |-> bucket]

\* symlink_path = root_dir / bucket_name
SymlinkPath(root, bucket) == [kind |-> "symlink_path", root |-> root, bucket |-> bucket]

Procs == {"p1", "p2"}

ENOTCONN == 107

\* An errno that is neither ENOTCONN nor one that pathlib ignores: the
\* input/output error of a FUSE mount whose daemon does not answer.
EIO == 5

\* pathlib's _IGNORED_ERRNOS (ENOENT, ENOTDIR, EBADF, ELOOP): on these
\* exists() and is_dir() return False.
_IGNORED_ERRNOS == {2, 20, 9, 40}

\* On any other errno exists() and is_dir() re-raise the OSError (pathlib
\* of Python 3.12 and earlier) or return False (later versions).
PathlibOnError == {"raises", "False"}

PollTimeout == 10

----------------------------------------------------------------------------
(* State                                                                   *)

VARIABLES
    mnt,       \* mnt[b]: the OS registration of the mount point of bucket b
    mdir,      \* mdir[b]: the mount-point directory of b exists
    daemon,    \* daemon[b]: an rclone daemon was launched for b and has not
               \* yet mounted or exited
    leftover,  \* leftover[b]: the local mount-point directory holds files
    link,      \* link[<<r, b>>]: what is at the path r/b
    call       \* call[p]: the call that process p is in, and where it is

vars == <<mnt, mdir, daemon, leftover, link, call>>

MountStates == {"Unmounted", "Active", "Stale"}

\* What mnt[b] can be: the three states, or a registration whose stat fails
\* with EIO ("Faulty").
Registrations == MountStates \cup {"Faulty"}

\* What can be at root_dir/bucket: nothing, an entry that is no symlink (a
\* regular file or a directory: "file"), a symlink to the bucket's mount
\* point, a symlink whose target is missing.
Entries == {"none", "file", "link_mp", "link_gone"}

Cells == Roots \X BucketIds

Results ==
    {"none", "ok", "MountError", "UnmountError", "TimeoutExpired",
     "FileNotFoundError", "FileExistsError", "OSError"}

NoValue == "None"

Idle ==
    [pc |-> "idle", op |-> "none", raw |-> <<>>, bucket |-> <<>>,
     root |-> "None", remove_symlinks |-> FALSE, polls |-> 0,
     result |-> "none", message |-> "", ret |-> NoValue,
     mounts |-> 0, unmounts |-> 0, sawActive |-> FALSE, purged |-> "nothing",
     pre |-> NoValue]

----------------------------------------------------------------------------
(* Probes of a path, and the Mount State Inspector                         *)

\* errno of path.stat(), which follows symlinks; 0 when it succeeds,
\* 2 (ENOENT) when nothing is there, ENOTCONN on a dead FUSE registration.
StatMountPoint(b) ==
    IF mnt[b] = "Stale" THEN ENOTCONN
    ELSE IF mnt[b] = "Faulty" THEN EIO
    ELSE IF ~mdir[b] THEN 2
    ELSE 0

stat(path) ==
    IF path.kind = "mount_point" THEN StatMountPoint(path.bucket)
    ELSE LET e == link[<<path.root, path.bucket>>]
         IN  CASE e = "none" -> 2
               [] e = "link_gone" -> 2
               [] e = "link_mp" -> StatMountPoint(path.bucket)
               [] OTHER -> 0

\* path.is_symlink(): lstat, the link itself.
is_symlink(path) ==
    /\ path.kind = "symlink_path"
    /\ link[<<path.root, path.bucket>>] \in {"link_mp", "link_gone"}

\* Exit status 0 of `mountpoint -q path`.  mountpoint(1) resolves the path
\* before it consults the mount table (only its --nofollow option turns
\* that off), so a symlink to a mount point is reported as a mount point.
mountpoint_q(path) ==
    IF path.kind = "mount_point" THEN mnt[path.bucket] = "Active"
    ELSE /\ link[<<path.root, path.bucket>>] = "link_mp"
         /\ mnt[path.bucket] = "Active"

_is_stale_mount(path) == stat(path) = ENOTCONN

\* path.exists()
exists(path) == stat(path) = 0

\* The stat of path fails with an errno that pathlib does not ignore.
StatFails(path) == stat(path) \notin ({0} \cup _IGNORED_ERRNOS)

_is_mountpoint_active(path) ==
    IF _is_stale_mount(path) THEN FALSE
    ELSE IF ~exists(path) THEN FALSE
    ELSE mountpoint_q(path)

\* The three-way classification of the spec, as the two predicates give it.
Inspect(path) ==
    IF _is_stale_mount(path) THEN "Stale"
    ELSE IF _is_mountpoint_active(path) THEN "Active"
    ELSE "Unmounted"

is_mounted(bucket_name) ==
    _is_mountpoint_active(MountPoint(_normalize_bucket_name(bucket_name)))

----------------------------------------------------------------------------
(* Helpers of the actions                                                  *)

fs == <<mnt, mdir, daemon, leftover, link>>

\* The call of p becomes c.
Becomes(p, c) == call' = [call EXCEPT ![p] = c]

\* The call ends by raising `error`, which carries `message`.
Raise(c, error, message) ==
    [c EXCEPT !.pc = "done", !.result = error, !.message = message]

\* The call returns `value`.
Return(c, value) == [c EXCEPT !.pc = "done", !.result = "ok", !.ret = value]

\* The callers whose mount_bucket call has just failed after the inspector
\* had reported the mount point of b Active.
FailedAfterActive(b) ==
    { q \in Procs : /\ call[q].pc = "done" /\ call[q].op = "mount_bucket"
                    /\ call[q].bucket = b
                    /\ call[q].result # "ok" /\ call[q].sawActive }

\* The world as a call on bucket b finds it: the registration of b's mount
\* point, whether a daemon for b is under way, every symlink path, and the
\* failed calls that it comes after.
Snapshot(b) ==
    [mnt |-> mnt[b], daemon |-> daemon[b], link |-> link,
     failed |-> FailedAfterActive(b)]

\* Outcomes of running fusermount3 / fusermount on the mount point of b:
\* exit status 0, another exit status, or the binary is not installed
\* (subprocess.run raises FileNotFoundError).  Nothing registered: no
\* exit status 0.
CommandOutcomes(b) ==
    IF mnt[b] = "Unmounted" THEN {"fail", "missing"}
    ELSE {"ok", "fail", "missing"}

\* for cmd in ["fusermount3", "fusermount"]: ... if returncode == 0: return True
\* ... return False
_cleanup_stale_mount(c1, c2) ==
    CASE c1 = "ok" -> "True"
      [] c1 = "missing" -> "FileNotFoundError"
      [] c2 = "ok" -> "True"
      [] c2 = "missing" -> "FileNotFoundError"
      [] OTHER -> "False"

\* for cmd in ["fusermount3", "fusermount"]: ... if returncode == 0: return
\* raise UnmountError
_do_unmount(c1, c2) ==
    CASE c1 = "ok" -> "ok"
      [] c1 = "missing" -> "FileNotFoundError"
      [] c2 = "ok" -> "ok"
      [] c2 = "missing" -> "FileNotFoundError"
      [] OTHER -> "UnmountError"

\* How many of the two variants were run.
CommandsRun(c1) == IF c1 = "fail" THEN 2 ELSE 1

----------------------------------------------------------------------------
(* mount_bucket                                                            *)

\* A plausible slip: the directories are created before the checks are made.
preflight_after_mkdir(p, bucket_name, root_dir) ==
    /\ call[p].pc = "idle"
    /\ \E rclone_ok \in BOOLEAN, fuse_ok \in BOOLEAN, s3 \in {"ok", "fail", "timeout"} :
        LET c == [Idle EXCEPT !.op = "mount_bucket",
                              !.raw = bucket_name,
                              !.bucket = _normalize_bucket_name(bucket_name),
                              !.root = ResolveRoot(root_dir),
                              !.pre = Snapshot(_normalize_bucket_name(bucket_name))]
        IN  Becomes(p, CASE ~rclone_ok -> Raise(c, "MountError", "rclone_msg")
                         [] ~fuse_ok -> Raise(c, "MountError", "fuse_msg")
                         [] s3 = "fail" -> Raise(c, "MountError", "s3_msg")
                         [] s3 = "timeout" -> Raise(c, "TimeoutExpired", "")
                         [] OTHER -> [c EXCEPT !.pc = "stale_cleanup"])
    /\ mdir' = [mdir EXCEPT ![_normalize_bucket_name(bucket_name)] =
                  mnt[_normalize_bucket_name(bucket_name)] # "Stale" \/ @]
    /\ UNCHANGED <<mnt, daemon, leftover, link>>

\* Lines 270-296: normalize, resolve the paths, the pre-flight checks and
\* _test_s3_access; subprocess.run(..., timeout=30) raises TimeoutExpired
\* when a listing does not finish in time.
mount_bucket_preflight(p, bucket_name, root_dir) ==
    /\ call[p].pc = "idle"
    /\ \E rclone_ok \in BOOLEAN, fuse_ok \in BOOLEAN, s3 \in {"ok", "fail", "timeout"} :
        LET c == [Idle EXCEPT !.op = "mount_bucket",
                              !.raw = bucket_name,
                              !.bucket = _normalize_bucket_name(bucket_name),
                              !.root = ResolveRoot(root_dir),
                              !.pre = Snapshot(_normalize_bucket_name(bucket_name))]
        IN  Becomes(p, CASE ~rclone_ok -> Raise(c, "MountError", "rclone_msg")
                         [] ~fuse_ok -> Raise(c, "MountError", "fuse_msg")
                         [] s3 = "fail" -> Raise(c, "MountError", "s3_msg")
                         [] s3 = "timeout" -> Raise(c, "TimeoutExpired", "")
                         [] OTHER -> [c EXCEPT !.pc = "stale_cleanup"])
    /\ UNCHANGED fs

\* A plausible slip: the stale registration is left as it is.
stale_cleanup_skipped(p) ==
    /\ call[p].pc = "stale_cleanup"
    /\ Becomes(p, [call[p] EXCEPT !.pc = "prepare"])
    /\ UNCHANGED fs

\* Lines 298-301: forced unmount of a stale registration.
mount_bucket_stale_cleanup(p) ==
    LET b == call[p].bucket
        next == [call[p] EXCEPT !.pc = "prepare"]
    IN  /\ call[p].pc = "stale_cleanup"
        /\ IF _is_stale_mount(MountPoint(b))
           THEN \E c1 \in CommandOutcomes(b), c2 \in CommandOutcomes(b) :
                  LET r == _cleanup_stale_mount(c1, c2)
                  IN  /\ mnt' = IF r = "True" THEN [mnt EXCEPT ![b] = "Unmounted"]
                                ELSE mnt
                      /\ Becomes(p, CASE r = "True" -> next
                                      [] r = "False" ->
                                           Raise(call[p], "MountError",
                                                 "Failed to clean up stale mount")
                                      [] OTHER -> Raise(call[p], r, ""))
           ELSE /\ Becomes(p, next)
                /\ UNCHANGED mnt
        /\ UNCHANGED <<mdir, daemon, leftover, link>>

\* Lines 308-313: what stands in the way of the symlink, if anything.
ConflictCheck(symlink_path) ==
    IF exists(symlink_path) /\ ~is_symlink(symlink_path)
    THEN "exists and is not a symlink"
    ELSE IF _is_mountpoint_active(symlink_path) THEN "is already a mount point"
    ELSE "none"

\* Lines 303-313: create the directories, then the conflict check.  mkdir
\* (exist_ok) on a dead registration fails with ENOTCONN.
mount_bucket_prepare(p) ==
    LET b == call[p].bucket
    IN  /\ call[p].pc = "prepare"
        /\ IF _is_stale_mount(MountPoint(b))
           THEN /\ Becomes(p, Raise(call[p], "OSError", ""))
                /\ UNCHANGED mdir
           ELSE /\ mdir' = [mdir EXCEPT ![b] = TRUE]
                /\ LET conflict == ConflictCheck(SymlinkPath(call[p].root, b))
                   IN  Becomes(p, IF conflict = "none"
                                  THEN [call[p] EXCEPT !.pc = "mount_if_needed"]
                                  ELSE Raise(call[p], "MountError", conflict))
        /\ UNCHANGED <<mnt, daemon, leftover, link>>

\* A plausible slip: the mount command is run whatever the inspector says.
mount_if_needed_always(p) ==
    /\ call[p].pc = "mount_if_needed"
    /\ Becomes(p, [call[p] EXCEPT !.pc = "purge"])
    /\ UNCHANGED fs

\* What the code does not do: a caller that finds another caller's mount of
\* the same bucket under way waits for that mount instead of starting one.
mount_if_needed_locked(p) ==
    LET b == call[p].bucket
        busy == \E q \in Procs \ {p} :
                  /\ call[q].op = "mount_bucket" /\ call[q].bucket = b
                  /\ call[q].pc \in {"purge", "do_mount", "poll"}
    IN  /\ call[p].pc = "mount_if_needed"
        /\ Becomes(p, IF _is_mountpoint_active(MountPoint(b))
                      THEN [call[p] EXCEPT !.pc = "unlink_old", !.sawActive = TRUE]
                      ELSE IF busy THEN [call[p] EXCEPT !.pc = "poll"]
                      ELSE [call[p] EXCEPT !.pc = "purge"])
        /\ UNCHANGED fs

\* Line 316: mount if not already mounted.
mount_bucket_mount_if_needed(p) ==
    /\ call[p].pc = "mount_if_needed"
    /\ Becomes(p, IF _is_mountpoint_active(MountPoint(call[p].bucket))
                  THEN [call[p] EXCEPT !.pc = "unlink_old", !.sawActive = TRUE]
                  ELSE [call[p] EXCEPT !.pc = "purge"])
    /\ UNCHANGED fs

\* Lines 320-325: unlink every entry that iterdir() lists.  In a local
\* directory these are the leftover files; through an active mount they
\* are the objects of the bucket; on a dead registration iterdir() fails.
\* call[p].purged records which of the two directories was emptied.
mount_bucket_purge(p) ==
    LET b == call[p].bucket
    IN  /\ call[p].pc = "purge"
        /\ CASE mnt[b] = "Stale" ->
                  /\ Becomes(p, Raise(call[p], "OSError", ""))
                  /\ UNCHANGED leftover
             [] mnt[b] = "Active" ->
                  /\ Becomes(p, [call[p] EXCEPT !.pc = "do_mount",
                                                !.purged = "bucket"])
                  /\ UNCHANGED leftover
             [] OTHER ->
                  /\ Becomes(p, [call[p] EXCEPT !.pc = "do_mount",
                                                !.purged = "local"])
                  /\ leftover' = [leftover EXCEPT ![b] = FALSE]
        /\ UNCHANGED <<mnt, mdir, daemon, link>>

\* Line 327, _do_mount (lines 145-192): run `rclone mount --daemon`; a
\* nonzero exit status raises MountError, exit status 0 leaves a detached
\* daemon behind.
mount_bucket_do_mount(p) ==
    LET b == call[p].bucket
        c == [call[p] EXCEPT !.mounts = @ + 1]
    IN  /\ call[p].pc = "do_mount"
        /\ \E returncode \in {0, 1} :
             IF returncode # 0
             THEN /\ Becomes(p, Raise(c, "MountError", "rclone mount failed"))
                  /\ UNCHANGED daemon
             ELSE /\ Becomes(p, [c EXCEPT !.pc = "poll", !.polls = 0])
                  /\ daemon' = [daemon EXCEPT ![b] = TRUE]
        /\ UNCHANGED <<mnt, mdir, leftover, link>>

\* A plausible slip: the result of _poll_until_mounted is not looked at.
poll_result_ignored(p) ==
    /\ call[p].pc = "poll"
    /\ Becomes(p, [call[p] EXCEPT !.pc = "unlink_old"])
    /\ UNCHANGED fs

\* A plausible slip: the loop gives up one probe late.
poll_one_more(p) ==
    /\ call[p].pc = "poll"
    /\ Becomes(p, IF _is_mountpoint_active(MountPoint(call[p].bucket))
                  THEN [call[p] EXCEPT !.pc = "unlink_old", !.sawActive = TRUE,
                                       !.polls = 0]
                  ELSE IF call[p].polls + 1 > PollTimeout
                       THEN Raise([call[p] EXCEPT !.polls = 0], "MountError",
                                  "Mount failed. Check logs")
                       ELSE [call[p] EXCEPT !.polls = @ + 1])
    /\ UNCHANGED fs

\* Lines 329-331, _poll_until_mounted (lines 195-201): one probe of the
\* loop; the probe that is the last of `timeout` and fails raises.
mount_bucket_poll(p) ==
    /\ call[p].pc = "poll"
    /\ Becomes(p, IF _is_mountpoint_active(MountPoint(call[p].bucket))
                  THEN [call[p] EXCEPT !.pc = "unlink_old", !.sawActive = TRUE,
                                       !.polls = 0]
                  ELSE IF call[p].polls + 1 >= PollTimeout
                       THEN Raise([call[p] EXCEPT !.polls = 0], "MountError",
                                  "Mount failed. Check logs")
                       ELSE [call[p] EXCEPT !.polls = @ + 1])
    /\ UNCHANGED fs

\* Lines 340-341: if symlink_path.is_symlink(): symlink_path.unlink()
mount_bucket_unlink_old(p) ==
    LET cell == <<call[p].root, call[p].bucket>>
    IN  /\ call[p].pc = "unlink_old"
        /\ link' = IF is_symlink(SymlinkPath(call[p].root, call[p].bucket))
                   THEN [link EXCEPT ![cell] = "none"]
                   ELSE link
        /\ Becomes(p, [call[p] EXCEPT !.pc = "symlink_to"])
        /\ UNCHANGED <<mnt, mdir, daemon, leftover>>

\* A plausible slip: a failed symlink step takes the mount down again.
symlink_failure_rolls_back(p) ==
    LET cell == <<call[p].root, call[p].bucket>>
    IN  /\ call[p].pc = "symlink_to"
        /\ IF link[cell] # "none"
           THEN /\ Becomes(p, Raise(call[p], "FileExistsError", ""))
                /\ mnt' = [mnt EXCEPT ![call[p].bucket] = "Unmounted"]
                /\ UNCHANGED link
           ELSE /\ link' = [link EXCEPT ![cell] = "link_mp"]
                /\ Becomes(p, Return(call[p], SymlinkPath(call[p].root, call[p].bucket)))
                /\ UNCHANGED mnt
        /\ UNCHANGED <<mdir, daemon, leftover>>

\* Lines 342-347: symlink_path.symlink_to(mount_point); return symlink_path.
\* symlink_to raises FileExistsError when something is at the path.
mount_bucket_symlink_to(p) ==
    LET cell == <<call[p].root, call[p].bucket>>
    IN  /\ call[p].pc = "symlink_to"
        /\ IF link[cell] # "none"
           THEN /\ Becomes(p, Raise(call[p], "FileExistsError", ""))
                /\ UNCHANGED link
           ELSE /\ link' = [link EXCEPT ![cell] = "link_mp"]
                /\ Becomes(p, Return(call[p], SymlinkPath(call[p].root, call[p].bucket)))
        /\ UNCHANGED <<mnt, mdir, daemon, leftover>>

----------------------------------------------------------------------------
(* unlink_bucket, unmount_bucket, is_mounted                               *)

\* A plausible slip: the symlink goes and the mount with it.
unlink_with_unmount(p, bucket_name, root_dir) ==
    LET b == _normalize_bucket_name(bucket_name)
        r == ResolveRoot(root_dir)
        c == [Idle EXCEPT !.op = "unlink_bucket", !.raw = bucket_name,
                          !.bucket = b, !.root = r, !.pre = Snapshot(b)]
    IN  /\ call[p].pc = "idle"
        /\ IF ~is_symlink(SymlinkPath(r, b))
           THEN /\ Becomes(p, Return(c, FALSE))
                /\ UNCHANGED <<mnt, link>>
           ELSE /\ link' = [link EXCEPT ![<<r, b>>] = "none"]
                /\ mnt' = [mnt EXCEPT ![b] = "Unmounted"]
                /\ Becomes(p, Return(c, TRUE))
        /\ UNCHANGED <<mdir, daemon, leftover>>

\* Lines 369-381.
unlink_bucket(p, bucket_name, root_dir) ==
    LET b == _normalize_bucket_name(bucket_name)
        r == ResolveRoot(root_dir)
        c == [Idle EXCEPT !.op = "unlink_bucket", !.raw = bucket_name,
                          !.bucket = b, !.root = r, !.pre = Snapshot(b)]
    IN  /\ call[p].pc = "idle"
        /\ IF ~is_symlink(SymlinkPath(r, b))
           THEN /\ Becomes(p, Return(c, FALSE))
                /\ UNCHANGED link
           ELSE /\ link' = [link EXCEPT ![<<r, b>>] = "none"]
                /\ Becomes(p, Return(c, TRUE))
        /\ UNCHANGED <<mnt, mdir, daemon, leftover>>

\* A plausible slip: the unmount command is run whatever the inspector says.
unmount_check_skipped(p, bucket_name, remove_symlinks) ==
    LET b == _normalize_bucket_name(bucket_name)
        c == [Idle EXCEPT !.op = "unmount_bucket", !.raw = bucket_name,
                          !.bucket = b, !.remove_symlinks = remove_symlinks,
                          !.pre = Snapshot(b)]
    IN  /\ call[p].pc = "idle"
        /\ Becomes(p, [c EXCEPT !.pc = "do_unmount"])
        /\ UNCHANGED fs

\* Lines 396-402: nothing to do unless the mount point is active.
unmount_bucket_check(p, bucket_name, remove_symlinks) ==
    LET b == _normalize_bucket_name(bucket_name)
        c == [Idle EXCEPT !.op = "unmount_bucket", !.raw = bucket_name,
                          !.bucket = b, !.remove_symlinks = remove_symlinks,
                          !.pre = Snapshot(b)]
    IN  /\ call[p].pc = "idle"
        /\ Becomes(p, IF ~_is_mountpoint_active(MountPoint(b))
                      THEN Return(c, NoValue)
                      ELSE [c EXCEPT !.pc = "do_unmount"])
        /\ UNCHANGED fs

\* Line 407, _do_unmount (lines 204-216): the forced, lazy unmount.
unmount_bucket_do_unmount(p) ==
    LET b == call[p].bucket
    IN  /\ call[p].pc = "do_unmount"
        /\ \E c1 \in CommandOutcomes(b), c2 \in CommandOutcomes(b) :
             LET r == _do_unmount(c1, c2)
                 c == [call[p] EXCEPT !.unmounts = CommandsRun(c1)]
             IN  /\ mnt' = IF r = "ok" THEN [mnt EXCEPT ![b] = "Unmounted"] ELSE mnt
                 /\ Becomes(p, IF r = "ok"
                               THEN [c EXCEPT !.pc = "remove_symlinks"]
                               ELSE Raise(c, r, IF r = "UnmountError"
                                                THEN "Failed to unmount" ELSE ""))
        /\ UNCHANGED <<mdir, daemon, leftover, link>>

\* A plausible slip: the default symlink is never removed.
remove_symlinks_never(p) ==
    /\ call[p].pc = "remove_symlinks"
    /\ Becomes(p, Return(call[p], NoValue))
    /\ UNCHANGED fs

\* A plausible slip: every symlink to the mount goes, under every root.
remove_symlinks_everywhere(p) ==
    LET b == call[p].bucket
    IN  /\ call[p].pc = "remove_symlinks"
        /\ link' = IF call[p].remove_symlinks
                   THEN [cell \in Cells |->
                           IF cell[2] = b /\ link[cell] = "link_mp"
                           THEN "none" ELSE link[cell]]
                   ELSE link
        /\ Becomes(p, Return(call[p], NoValue))
        /\ UNCHANGED <<mnt, mdir, daemon, leftover>>

\* Lines 412-418: the default symlink goes, if asked for and if it is one.
unmount_bucket_remove_symlinks(p) ==
    LET b == call[p].bucket
        default_symlink == SymlinkPath(get_default_root, b)
    IN  /\ call[p].pc = "remove_symlinks"
        /\ link' = IF call[p].remove_symlinks /\ is_symlink(default_symlink)
                   THEN [link EXCEPT ![<<get_default_root, b>>] = "none"]
                   ELSE link
        /\ Becomes(p, Return(call[p], NoValue))
        /\ UNCHANGED <<mnt, mdir, daemon, leftover>>

\* Lines 238-240, as a call.
call_is_mounted(p, bucket_name) ==
    LET c == [Idle EXCEPT !.op = "is_mounted", !.raw = bucket_name,
                          !.bucket = _normalize_bucket_name(bucket_name),
                          !.pre = Snapshot(_normalize_bucket_name(bucket_name))]
    IN  /\ call[p].pc = "idle"
        /\ Becomes(p, Return(c, is_mounted(bucket_name)))
        /\ UNCHANGED fs

\* The caller takes the result; the process is free for its next call.
finish(p) ==
    /\ call[p].pc = "done"
    /\ Becomes(p, Idle)
    /\ UNCHANGED fs

----------------------------------------------------------------------------
(* What happens outside the calls                                          *)

\* The detached daemon that _do_mount launched registers the mount.  rclone
\* mounts on an empty directory only (no --allow-non-empty is passed).
DaemonMounts(b) ==
    /\ daemon[b] /\ mnt[b] = "Unmounted" /\ mdir[b] /\ ~leftover[b]
    /\ mnt' = [mnt EXCEPT ![b] = "Active"]
    /\ daemon' = [daemon EXCEPT ![b] = FALSE]
    /\ UNCHANGED <<mdir, leftover, link, call>>

\* The launched daemon exits without mounting.
DaemonExits(b) ==
    /\ daemon[b]
    /\ daemon' = [daemon EXCEPT ![b] = FALSE]
    /\ UNCHANGED <<mnt, mdir, leftover, link, call>>

\* The daemon of an active mount dies: the registration stays (lines 45-48).
DaemonDies(b) ==
    /\ mnt[b] = "Active"
    /\ mnt' = [mnt EXCEPT ![b] = "Stale"]
    /\ UNCHANGED <<mdir, daemon, leftover, link, call>>

\* Files are left in the local, unmounted mount-point directory.
LeaveFiles(b) ==
    /\ mnt[b] = "Unmounted" /\ mdir[b] /\ ~leftover[b]
    /\ leftover' = [leftover EXCEPT ![b] = TRUE]
    /\ UNCHANGED <<mnt, mdir, daemon, link, call>>

\* Somebody else puts a file, a directory or a symlink at a symlink path.
ForeignEntry(cell, e) ==
    /\ link[cell] = "none"
    /\ link' = [link EXCEPT ![cell] = e]
    /\ UNCHANGED <<mnt, mdir, daemon, leftover, call>>

\* ... or takes one away.
ForeignRemoval(cell) ==
    /\ link[cell] \in {"file", "link_gone"}
    /\ link' = [link EXCEPT ![cell] = "none"]
    /\ UNCHANGED <<mnt, mdir, daemon, leftover, call>>

----------------------------------------------------------------------------
(* Specifications                                                          *)

Init ==
    /\ mnt = [b \in BucketIds |-> "Unmounted"]
    /\ mdir = [b \in BucketIds |-> FALSE]
    /\ daemon = [b \in BucketIds |-> FALSE]
    /\ leftover = [b \in BucketIds |-> FALSE]
    /\ link = [cell \in Cells |-> "none"]
    /\ call = [p \in Procs |-> Idle]

AllIdle == \A p \in Procs : call[p].pc = "idle"

\* The calls made: every spelling of bucket a under every root_dir, and
\* bucket b under the default root.
NamesA == { n \in RawNames : _normalize_bucket_name(n) = <<"a">> }

Targets ==
    (NamesA \X RootArgs) \cup ((RawNames \ NamesA) \X {"None"})

\* Foreign entries appear at the paths of bucket a, one at a time.
ForeignCells == { cell \in Cells : cell[2] = <<"a">> }

NoForeignEntry == \A cell \in Cells : link[cell] \in {"none", "link_mp"}

Step(p) ==
    \/ \E t \in Targets : mount_bucket_preflight(p, t[1], t[2])
    \/ mount_bucket_stale_cleanup(p)
    \/ mount_bucket_prepare(p)
    \/ mount_bucket_mount_if_needed(p)
    \/ mount_bucket_purge(p)
    \/ mount_bucket_do_mount(p)
    \/ mount_bucket_poll(p)
    \/ mount_bucket_unlink_old(p)
    \/ mount_bucket_symlink_to(p)
    \/ \E t \in Targets : unlink_bucket(p, t[1], t[2])
    \/ \E n \in RawNames, f \in BOOLEAN : unmount_bucket_check(p, n, f)
    \/ unmount_bucket_do_unmount(p)
    \/ unmount_bucket_remove_symlinks(p)
    \/ \E n \in RawNames : call_is_mounted(p, n)
    \/ finish(p)

Daemon == \E b \in BucketIds : DaemonMounts(b) \/ DaemonExits(b)

Outside ==
    \/ \E b \in BucketIds : DaemonDies(b) \/ LeaveFiles(b)
    \/ \E cell \in ForeignCells, e \in {"file", "link_gone"} :
         NoForeignEntry /\ ForeignEntry(cell, e)
    \/ \E cell \in ForeignCells : ForeignRemoval(cell)

\* One caller, one call at a time; the world changes between the calls, and
\* a launched daemon comes up (or not) whenever it does.
Next ==
    \/ Step("p1")
    \/ Daemon
    \/ AllIdle /\ Outside

Spec == Init /\ [][Next]_vars

\* mount_bucket alone: bucket a is mounted under r1 or under the default
\* root, in the same changing world.
MountTargets == {<<"a">>} \X {"r1", "None"}

StepMount(p) ==
    \/ \E t \in MountTargets : mount_bucket_preflight(p, t[1], t[2])
    \/ mount_bucket_stale_cleanup(p)
    \/ mount_bucket_prepare(p)
    \/ mount_bucket_mount_if_needed(p)
    \/ mount_bucket_purge(p)
    \/ mount_bucket_do_mount(p)
    \/ mount_bucket_poll(p)
    \/ mount_bucket_unlink_old(p)
    \/ mount_bucket_symlink_to(p)
    \/ finish(p)

NextMount ==
    \/ StepMount("p1")
    \/ Daemon
    \/ AllIdle /\ Outside

\* Two callers whose mount_bucket calls interleave step by step; the code
\* takes no lock.  Nothing else touches the paths.
NextConc ==
    \/ \E p \in Procs : StepMount(p)
    \/ Daemon

SpecConc == Init /\ [][NextConc]_vars

\* The caller's process is scheduled: a call under way takes its next step.
SpecMountLive == Init /\ [][NextMount]_vars /\ WF_vars(StepMount("p1"))

----------------------------------------------------------------------------
(* _normalize_bucket_name on its own                                       *)

MaxTokens == 4

\* The pieces the inputs are made of.
Tokens ==
    { Scheme, <<"s", "3">>, <<":", "/", "/">>, <<":">>, <<"/">>, <<"a">> }

RECURSIVE Concat(_)
Concat(ts) == IF ts = <<>> THEN <<>> ELSE Head(ts) \o Concat(Tail(ts))

Inputs == { Concat(ts) : ts \in UNION { [1..k -> Tokens] : k \in 0..MaxTokens } }

\* Line 40, applied to the input that the process holds.
normalize(p) ==
    /\ call[p].pc = "normalize"
    /\ Becomes(p, Return([call[p] EXCEPT !.bucket = _normalize_bucket_name(call[p].raw)],
                         _normalize_bucket_name(call[p].raw)))
    /\ UNCHANGED fs

InitNormalize ==
    /\ mnt = [b \in BucketIds |-> "Unmounted"]
    /\ mdir = [b \in BucketIds |-> FALSE]
    /\ daemon = [b \in BucketIds |-> FALSE]
    /\ leftover = [b \in BucketIds |-> FALSE]
    /\ link = [cell \in Cells |-> "none"]
    /\ \E n \in Inputs :
         call = [p \in Procs |->
                   IF p = "p1"
                   THEN [Idle EXCEPT !.pc = "normalize",
                                     !.op = "_normalize_bucket_name", !.raw = n]
                   ELSE Idle]

NextNormalize == normalize("p1")

SpecNormalize == InitNormalize /\ [][NextNormalize]_vars

----------------------------------------------------------------------------
(* The inspector and list_mounts on their own                              *)

\* The paths that are inspected: the mount points, and one symlink path.
InspectedPaths ==
    { MountPoint(b) : b \in BucketIds } \cup { SymlinkPath("r1", <<"a">>) }

\* Lines 93-105 as a call that classifies `path`: _is_stale_mount, then
\* path.exists(), then `mountpoint -q`.  _is_stale_mount swallows every
\* OSError; path.exists() does so only as pathlib decides.
inspect(p, path) ==
    LET c == [Idle EXCEPT !.op = "inspect", !.bucket = path.bucket,
                          !.root = IF path.kind = "symlink_path"
                                   THEN path.root ELSE "None"]
    IN  /\ call[p].pc = "idle"
        /\ IF ~_is_stale_mount(path) /\ StatFails(path)
           THEN \E v \in PathlibOnError :
                  Becomes(p, IF v = "raises" THEN Raise(c, "OSError", "")
                             ELSE Return(c, "Unmounted"))
           ELSE Becomes(p, Return(c, Inspect(path)))
        /\ UNCHANGED fs

\* One entry of the list that list_mounts returns (lines 436-442).
MountEntry(b) ==
    [bucket |-> b, mount_point |-> MountPoint(b),
     active |-> _is_mountpoint_active(MountPoint(b))]

\* Lines 428-444.  iterdir() lists the directory of every bucket;
\* item.is_dir() stats the item, and on a registration whose stat fails
\* (ENOTCONN, EIO) it raises or returns False, as pathlib decides.
list_mounts(p) ==
    LET c == [Idle EXCEPT !.op = "list_mounts"]
        items == { b \in BucketIds : mdir[b] }
        broken == { b \in items : StatFails(MountPoint(b)) }
    IN  /\ call[p].pc = "idle"
        /\ IF broken = {}
           THEN Becomes(p, Return(c, { MountEntry(b) : b \in items }))
           ELSE \E v \in PathlibOnError :
                  Becomes(p, IF v = "raises" THEN Raise(c, "OSError", "")
                             ELSE Return(c, { MountEntry(b) : b \in items \ broken }))
        /\ UNCHANGED fs

\* Any registrations, any directories under them, anything at r1/a.
InitInspect ==
    /\ mnt \in [BucketIds -> Registrations]
    /\ mdir \in [BucketIds -> BOOLEAN]
    /\ \A b \in BucketIds : mnt[b] # "Unmounted" => mdir[b]
    /\ daemon = [b \in BucketIds |-> FALSE]
    /\ leftover = [b \in BucketIds |-> FALSE]
    /\ \E e \in Entries :
         link = [cell \in Cells |-> IF cell = <<"r1", <<"a">>>> THEN e ELSE "none"]
    /\ call = [p \in Procs |-> Idle]

NextInspect ==
    \/ \E path \in InspectedPaths : inspect("p1", path)
    \/ list_mounts("p1")
    \/ finish("p1")

SpecInspect == InitInspect /\ [][NextInspect]_vars

----------------------------------------------------------------------------
(* unmount-bucket --all (cli.py)                                           *)

\* The orders in which iterdir() can list the buckets of S.
RECURSIVE Listings(_)
Listings(S) ==
    IF S = {} THEN {<<>>}
    ELSE UNION { { <<b>> \o l : l \in Listings(S \ {b}) } : b \in S }

\* What the loop has done so far: the list it walks, the index of the next
\* entry, the buckets whose unmount was attempted and the buckets whose
\* failure was printed, both in order.
Progress(mounts) ==
    [mounts |-> mounts, next |-> 1, attempted |-> <<>>, reported |-> <<>>]

\* The loop goes on to the next entry, or the command returns (exit
\* status 0) after the last one.
Continue(c, r) ==
    IF r.next = Len(r.mounts)
    THEN Return(c, [r EXCEPT !.next = @ + 1])
    ELSE [c EXCEPT !.ret = [r EXCEPT !.next = @ + 1]]

\* cli.py lines 158-163: mounts = list_mounts(); nothing listed, nothing
\* to do.  list_mounts is as above (mount.py lines 428-444).
unmount_all_start(p, keep_symlinks) ==
    LET c == [Idle EXCEPT !.op = "unmount_all",
                          !.remove_symlinks = ~keep_symlinks]
        items == { b \in BucketIds : mdir[b] }
        broken == { b \in items : StatFails(MountPoint(b)) }
    IN  /\ call[p].pc = "idle"
        /\ \E v \in PathlibOnError :
             IF broken # {} /\ v = "raises"
             THEN Becomes(p, Raise(c, "OSError", ""))
             ELSE \E l \in Listings(items \ broken) :
                    LET mounts == [i \in 1..Len(l) |-> MountEntry(l[i])]
                    IN  Becomes(p, IF mounts = <<>>
                                   THEN Return(c, Progress(mounts))
                                   ELSE [c EXCEPT !.pc = "unmount_all",
                                                  !.ret = Progress(mounts)])
        /\ UNCHANGED fs

\* A plausible slip: the first failure ends the command.
unmount_all_stops_at_failure(p) ==
    LET c == call[p]
        r == c.ret
        m == r.mounts[r.next]
        b == _normalize_bucket_name(m.bucket)
        tried == [r EXCEPT !.attempted = Append(@, m.bucket)]
    IN  /\ c.pc = "unmount_all"
        /\ IF ~m.active
           THEN /\ Becomes(p, Continue(c, r))
                /\ UNCHANGED fs
           ELSE IF ~_is_mountpoint_active(MountPoint(b))
           THEN /\ Becomes(p, Continue(c, tried))
                /\ UNCHANGED fs
           ELSE \E c1 \in CommandOutcomes(b), c2 \in CommandOutcomes(b) :
                  LET u == _do_unmount(c1, c2)
                      default_symlink == SymlinkPath(get_default_root, b)
                  IN  /\ mnt' = IF u = "ok" THEN [mnt EXCEPT ![b] = "Unmounted"]
                                ELSE mnt
                      /\ link' = IF u = "ok" /\ c.remove_symlinks
                                    /\ is_symlink(default_symlink)
                                 THEN [link EXCEPT ![<<get_default_root, b>>] = "none"]
                                 ELSE link
                      /\ Becomes(p, IF u = "ok" THEN Continue(c, tried)
                                    ELSE Raise([c EXCEPT !.ret = tried], u, ""))
                      /\ UNCHANGED <<mdir, daemon, leftover>>

\* cli.py lines 165-175: one turn of the loop, and the return after it.  An entry listed as active
\* is handed to unmount_bucket (mount.py lines 394-418); UnmountError is
\* caught and printed, any other exception leaves the command.
unmount_all_next(p) ==
    LET c == call[p]
        r == c.ret
        m == r.mounts[r.next]
        b == _normalize_bucket_name(m.bucket)
        tried == [r EXCEPT !.attempted = Append(@, m.bucket)]
    IN  /\ c.pc = "unmount_all"
        /\ IF ~m.active
           THEN /\ Becomes(p, Continue(c, r))
                /\ UNCHANGED fs
           ELSE IF ~_is_mountpoint_active(MountPoint(b))
           THEN /\ Becomes(p, Continue(c, tried))
                /\ UNCHANGED fs
           ELSE \E c1 \in CommandOutcomes(b), c2 \in CommandOutcomes(b) :
                  LET u == _do_unmount(c1, c2)
                      default_symlink == SymlinkPath(get_default_root, b)
                  IN  /\ mnt' = IF u = "ok" THEN [mnt EXCEPT ![b] = "Unmounted"]
                                ELSE mnt
                      /\ link' = IF u = "ok" /\ c.remove_symlinks
                                    /\ is_symlink(default_symlink)
                                 THEN [link EXCEPT ![<<get_default_root, b>>] = "none"]
                                 ELSE link
                      /\ Becomes(p, CASE u = "ok" -> Continue(c, tried)
                                      [] u = "UnmountError" ->
                                           Continue(c, [tried EXCEPT !.reported =
                                                          Append(@, m.bucket)])
                                      [] OTHER -> Raise([c EXCEPT !.ret = tried], u, ""))
                      /\ UNCHANGED <<mdir, daemon, leftover>>

\* Any mount state for the two buckets, with or without a default symlink.
InitCli ==
    /\ mnt \in [BucketIds -> MountStates]
    /\ mdir \in [BucketIds -> BOOLEAN]
    /\ \A b \in BucketIds : mnt[b] # "Unmounted" => mdir[b]
    /\ daemon = [b \in BucketIds |-> FALSE]
    /\ leftover = [b \in BucketIds |-> FALSE]
    /\ \E D \in SUBSET BucketIds :
         link = [cell \in Cells |->
                   IF cell[1] = get_default_root /\ cell[2] \in D
                   THEN "link_mp" ELSE "none"]
    /\ call = [p \in Procs |-> Idle]

NextCli ==
    \/ \E keep_symlinks \in BOOLEAN : unmount_all_start("p1", keep_symlinks)
    \/ unmount_all_next("p1")
    \/ finish("p1")

SpecCli == InitCli /\ [][NextCli]_vars

----------------------------------------------------------------------------
(* Properties                                                              *)

\* p has finished a call of `op` and holds its result.
Done(p, op) == call[p].pc = "done" /\ call[p].op = op

\* The messages of the pre-flight and remote-access failures.
CheckMessages == {"rclone_msg", "fuse_msg", "s3_msg"}

\* The pre-flight checks and both remote listings passed.
ChecksPassed(c) == c.message \notin CheckMessages /\ c.result # "TimeoutExpired"

\* C1: mounting a bucket under a second, different root directory runs no
\* second mount command.  A successful mount_bucket that finds the bucket
\* unmounted (no daemon under way) runs the mount command exactly once; a
\* mount_bucket that finds it Active with the symlink of an earlier call
\* under another root r1 runs it zero times, leaves the mount Active and
\* r1's symlink on the mount point, succeeds whenever the checks pass and
\* nothing is at its own symlink path, and on success its own symlink
\* points to the same mount point.
C1_TwoRootsOneMount ==
    \A p \in Procs :
      LET c == call[p]
          b == c.bucket
      IN  Done(p, "mount_bucket") =>
            /\ (c.result = "ok" /\ c.pre.mnt = "Unmounted" /\ ~c.pre.daemon)
                 => c.mounts = 1
            /\ \A r1 \in Roots \ {c.root} :
                 (c.pre.mnt = "Active" /\ c.pre.link[<<r1, b>>] = "link_mp")
                   => /\ c.mounts = 0
                      /\ Inspect(MountPoint(b)) = "Active"
                      /\ link[<<r1, b>>] = "link_mp"
                      /\ (ChecksPassed(c) /\ c.pre.link[<<c.root, b>>] = "none")
                           => c.result = "ok"
                      /\ c.result = "ok" => link[<<c.root, b>>] = "link_mp"

C1_Witness ==
    \E p \in Procs :
      LET c == call[p]
          b == c.bucket
      IN  /\ Done(p, "mount_bucket") /\ c.result = "ok" /\ c.mounts = 0
          /\ c.root = "r2"
          /\ c.pre.mnt = "Active" /\ c.pre.link[<<"r1", b>>] = "link_mp"
          /\ c.pre.link[<<"r2", b>>] = "none"
          /\ link[<<"r1", b>>] = "link_mp" /\ link[<<"r2", b>>] = "link_mp"
          /\ mnt[b] = "Active"

\* C2: a second mount_bucket for the same bucket and the same root_dir,
\* the mount Active and root_dir/bucket already the symlink of the first
\* call, succeeds without running the mount command and leaves the
\* symlink on the mount point (the checks passing).
C2_SameRootRemount ==
    \A p \in Procs :
      LET c == call[p]
          b == c.bucket
      IN  ( /\ Done(p, "mount_bucket")
            /\ c.pre.mnt = "Active"
            /\ c.pre.link[<<c.root, b>>] = "link_mp"
            /\ ChecksPassed(c) )
          => /\ c.result = "ok"
             /\ c.mounts = 0
             /\ link[<<c.root, b>>] = "link_mp"

\* C3: when mount_bucket returns normally, the path it returns is
\* root_dir/<normalized bucket id>, that path is a symlink to the mount
\* point of that id, and the inspector reported the mount point Active
\* during the call.
C3_ReturnedSymlink ==
    \A p \in Procs :
      LET c == call[p]
          id == _normalize_bucket_name(c.raw)
      IN  (Done(p, "mount_bucket") /\ c.result = "ok")
          => /\ c.ret = SymlinkPath(c.root, id)
             /\ is_symlink(c.ret)
             /\ link[<<c.root, id>>] = "link_mp"
             /\ c.sawActive

C3_Witness ==
    \E p \in Procs :
      LET c == call[p]
      IN  /\ Done(p, "mount_bucket") /\ c.result = "ok"
          /\ c.raw = <<"s", "3", ":", "/", "/", "a", "/">>
          /\ c.ret = SymlinkPath("r1", <<"a">>)
          /\ c.mounts = 1 /\ c.sawActive
          /\ link[<<"r1", <<"a">>>>] = "link_mp"

\* C4: round trip.  An unmount_bucket (remove_symlinks true) that returns
\* normally after a successful mount_bucket under the default root (mount
\* Active, default symlink in place, no other daemon under way) leaves the
\* mount point not Active and the default symlink removed, and is_mounted
\* is then false.
C4_RoundTrip ==
    \A p \in Procs :
      LET c == call[p]
          b == c.bucket
          default == <<get_default_root, b>>
      IN  ( /\ Done(p, "unmount_bucket") /\ c.result = "ok"
            /\ c.remove_symlinks
            /\ c.pre.mnt = "Active" /\ ~c.pre.daemon
            /\ c.pre.link[default] = "link_mp" )
          => /\ Inspect(MountPoint(b)) # "Active"
             /\ link[default] = "none"
             /\ ~is_mounted(c.raw)

C4_Witness ==
    \E p \in Procs :
      LET c == call[p]
          b == c.bucket
      IN  /\ Done(p, "unmount_bucket") /\ c.result = "ok" /\ c.remove_symlinks
          /\ c.pre.mnt = "Active" /\ ~c.pre.daemon
          /\ c.pre.link[<<get_default_root, b>>] = "link_mp"
          /\ c.unmounts > 0
          /\ mnt[b] = "Unmounted" /\ link[<<get_default_root, b>>] = "none"

\* C5: unmount_bucket on a bucket whose mount point the inspector reports
\* as not Active (Unmounted or Stale) is one step that returns normally,
\* runs no unmount command and changes neither the mount table nor any
\* symlink.
C5_UnmountNotActive ==
    [][ \A p \in Procs :
          ( /\ call[p].pc = "idle"
            /\ call'[p].op = "unmount_bucket"
            /\ Inspect(MountPoint(call'[p].bucket)) # "Active" )
          => /\ call'[p].pc = "done"
             /\ call'[p].result = "ok"
             /\ call'[p].unmounts = 0
             /\ mnt' = mnt
             /\ link' = link ]_vars

C5_Witness ==
    \E p \in Procs :
      LET c == call[p]
          b == c.bucket
      IN  /\ Done(p, "unmount_bucket") /\ c.result = "ok" /\ c.unmounts = 0
          /\ c.remove_symlinks
          /\ c.pre.mnt = "Stale" /\ mnt[b] = "Stale"
          /\ link[<<get_default_root, b>>] = "link_mp"

\* The hypotheses that C6 states: the mount point is Stale when the call
\* starts, the checks pass, the forced unmount succeeds.
StaleRecovery(c) ==
    /\ c.pre.mnt = "Stale"
    /\ ChecksPassed(c)
    /\ c.message # "Failed to clean up stale mount"
    /\ c.result # "FileNotFoundError"

\* A registered mount point whose stat fails with ENOTCONN is Stale.
StaleIsStale ==
    \A b \in BucketIds :
      mnt[b] = "Stale"
        => /\ stat(MountPoint(b)) = ENOTCONN
           /\ Inspect(MountPoint(b)) = "Stale"
           /\ ~_is_mountpoint_active(MountPoint(b))

\* C6 as stated: a Stale mount point is classified Stale, and a
\* mount_bucket call that finds it so, the checks passing and the forced
\* unmount succeeding, ends Active with a normal return.
C6_Original ==
    /\ StaleIsStale
    /\ \A p \in Procs :
         LET c == call[p]
         IN  (Done(p, "mount_bucket") /\ StaleRecovery(c))
             => /\ c.result = "ok"
                /\ Inspect(MountPoint(c.bucket)) = "Active"

\* C6 as amended: ... and, further, nothing in the way at the symlink path,
\* the mount command exiting 0 and a readiness poll seeing the mount: then
\* the call ends Active with a normal return.
C6_StaleRecovered ==
    /\ StaleIsStale
    /\ \A p \in Procs :
         LET c == call[p]
         IN  ( /\ Done(p, "mount_bucket") /\ StaleRecovery(c)
               /\ c.message \notin {"exists and is not a symlink",
                                    "is already a mount point",
                                    "rclone mount failed",
                                    "Mount failed. Check logs"} )
             => /\ c.result = "ok"
                /\ c.sawActive
                /\ Inspect(MountPoint(c.bucket)) = "Active"

C6_Witness ==
    \E p \in Procs :
      LET c == call[p]
      IN  /\ Done(p, "mount_bucket") /\ c.pre.mnt = "Stale"
          /\ c.result = "ok" /\ c.mounts = 1 /\ c.sawActive
          /\ mnt[c.bucket] = "Active"
          /\ link[<<c.root, c.bucket>>] = "link_mp"

\* C7: unlink_bucket tells three cases of root_dir/bucket apart: a symlink
\* is removed and removal reported; no entry gives "nothing removed"
\* without an error; an entry that is no symlink makes the call fail, the
\* entry left in place.
C7_UnlinkThreeCases ==
    \A p \in Procs :
      LET c == call[p]
          cell == <<c.root, c.bucket>>
          e == c.pre.link[cell]
      IN  Done(p, "unlink_bucket")
          => /\ e \in {"link_mp", "link_gone"}
                  => (c.result = "ok" /\ c.ret = TRUE /\ link[cell] = "none")
             /\ e = "none"
                  => (c.result = "ok" /\ c.ret = FALSE /\ link[cell] = "none")
             /\ e = "file"
                  => (c.result # "ok" /\ link[cell] = "file")

\* C8: unlink_bucket is one step that leaves the mount table, the mount
\* directories, the daemons and every symlink path other than
\* root_dir/bucket as they are, and runs no mount or unmount command.
C8_UnlinkLeavesMount ==
    [][ \A p \in Procs :
          (call[p].pc = "idle" /\ call'[p].op = "unlink_bucket")
          => /\ call'[p].pc = "done"
             /\ mnt' = mnt /\ mdir' = mdir /\ daemon' = daemon
             /\ \A cell \in Cells \ {<<call'[p].root, call'[p].bucket>>} :
                  link'[cell] = link[cell]
             /\ call'[p].mounts = 0 /\ call'[p].unmounts = 0 ]_vars

C8_Witness ==
    \E p \in Procs :
      LET c == call[p]
          b == c.bucket
      IN  /\ Done(p, "unlink_bucket") /\ c.ret = TRUE /\ c.root = "r1"
          /\ c.pre.link[<<"r1", b>>] = "link_mp" /\ link[<<"r1", b>>] = "none"
          /\ mnt[b] = "Active" /\ c.pre.mnt = "Active"
          /\ link[<<"cwd", b>>] = "link_mp"

\* C9: after an unmount_bucket call every symlink path is as the call found
\* it, except that the default one, <default root>/bucket, is gone when it
\* was a symlink, remove_symlinks is true and the unmount command
\* succeeded.
C9_UnmountKeepsCustomLinks ==
    \A p \in Procs :
      LET c == call[p]
          b == c.bucket
      IN  Done(p, "unmount_bucket")
          => \A cell \in Cells :
               \/ link[cell] = c.pre.link[cell]
               \/ /\ cell = <<get_default_root, b>>
                  /\ c.pre.link[cell] \in {"link_mp", "link_gone"}
                  /\ link[cell] = "none"
                  /\ c.remove_symlinks
                  /\ c.result = "ok" /\ c.unmounts > 0 /\ c.pre.mnt = "Active"

C9_Witness ==
    \E p \in Procs :
      LET c == call[p]
          b == c.bucket
      IN  /\ Done(p, "unmount_bucket") /\ c.result = "ok" /\ c.unmounts > 0
          /\ c.remove_symlinks
          /\ c.pre.link[<<"cwd", b>>] = "link_mp" /\ link[<<"cwd", b>>] = "none"
          /\ c.pre.link[<<"r1", b>>] = "link_mp" /\ link[<<"r1", b>>] = "link_mp"
          /\ c.pre.link[<<"r2", b>>] = "link_mp" /\ link[<<"r2", b>>] = "link_mp"

\* The names of which `raw` is a spelling: raw itself, raw without a
\* leading "s3://", raw without a trailing "/", raw without both.
EndsWithSlash(s) == s # <<>> /\ s[Len(s)] = Slash

WithoutScheme(s) == SubSeq(s, Len(Scheme) + 1, Len(s))

WithoutSlash(s) == SubSeq(s, 1, Len(s) - 1)

Unspelled(raw) ==
    {raw}
    \cup (IF StartsWith(raw, Scheme) THEN {WithoutScheme(raw)} ELSE {})
    \cup (IF EndsWithSlash(raw) THEN {WithoutSlash(raw)} ELSE {})
    \cup (IF StartsWith(raw, Scheme) /\ EndsWithSlash(WithoutScheme(raw))
          THEN {WithoutSlash(WithoutScheme(raw))} ELSE {})

\* A bucket name holds no ":".
IsBucketName(n) == \A i \in 1..Len(n) : n[i] # ":"

\* C10: a bucket name n written with a leading "s3://" and/or a trailing
\* "/" normalizes to the id that n itself normalizes to; so the mount point
\* and the symlink paths derived from the id are the same for all the
\* spellings.
C10_SpellingsAgree ==
    \A p \in Procs :
      LET c == call[p]
      IN  Done(p, "_normalize_bucket_name")
          => \A n \in Unspelled(c.raw) :
               IsBucketName(n)
                 => /\ c.ret = _normalize_bucket_name(n)
                    /\ MountPoint(c.ret) = MountPoint(_normalize_bucket_name(n))
                    /\ \A r \in Roots :
                         SymlinkPath(r, c.ret)
                           = SymlinkPath(r, _normalize_bucket_name(n))

C10_Witness ==
    \E p \in Procs :
      LET c == call[p]
      IN  /\ Done(p, "_normalize_bucket_name")
          /\ c.raw = Scheme \o <<"s", "3", "a", "/">>
          /\ <<"s", "3", "a">> \in Unspelled(c.raw)
          /\ c.ret = <<"s", "3", "a">>

\* C11: for every input, the id that _normalize_bucket_name returns does
\* not start with "s3://", neither starts nor ends with "/", and is
\* returned unchanged when it is normalized again.
C11_NormalizedId ==
    \A p \in Procs :
      LET c == call[p]
      IN  Done(p, "_normalize_bucket_name")
          => /\ ~StartsWith(c.ret, Scheme)
             /\ (c.ret # <<>> => Head(c.ret) # Slash)
             /\ ~EndsWithSlash(c.ret)
             /\ _normalize_bucket_name(c.ret) = c.ret

\* C12: a mount_bucket call that fails ends with MountError and an
\* unmount_bucket call that fails ends with UnmountError, whichever step
\* failed; no other kind of error leaves either operation.
C12_TwoErrorKinds ==
    \A p \in Procs :
      LET c == call[p]
      IN  /\ (Done(p, "mount_bucket") /\ c.result # "ok")
               => c.result = "MountError"
          /\ (Done(p, "unmount_bucket") /\ c.result # "ok")
               => c.result = "UnmountError"

\* The two messages with which the conflict check aborts.
ConflictMessages == {"exists and is not a symlink", "is already a mount point"}

\* C13: a mount_bucket call that finds an entry that is no symlink at
\* root_dir/bucket fails, with the conflict's MountError once the earlier
\* steps have passed, leaves the entry as it is, runs no mount command and
\* creates no symlink; a call that finds a symlink there (dangling, or to
\* the bucket's own mount point) does not abort with a conflict.
C13_ConflictCheck ==
    \A p \in Procs :
      LET c == call[p]
          cell == <<c.root, c.bucket>>
          e == c.pre.link[cell]
      IN  Done(p, "mount_bucket")
          => /\ e = "file"
                  => /\ c.result # "ok"
                     /\ link[cell] = "file"
                     /\ c.mounts = 0
                     /\ (ChecksPassed(c) /\ c.pre.mnt # "Stale")
                          => (c.result = "MountError"
                              /\ c.message = "exists and is not a symlink")
             /\ e \in {"link_mp", "link_gone"}
                  => c.message \notin ConflictMessages

\* The path that an inspect call was given.
CallPath(c) ==
    IF c.root = "None" THEN MountPoint(c.bucket) ELSE SymlinkPath(c.root, c.bucket)

\* C14: the inspector classifies every path and raises nothing: Stale when
\* the stat fails with ENOTCONN, Unmounted when it fails with any other
\* errno, otherwise Active when the mount table lists the path and
\* Unmounted when it does not.
C14_InspectorTotal ==
    \A p \in Procs :
      LET c == call[p]
          path == CallPath(c)
      IN  Done(p, "inspect")
          => /\ c.result = "ok"
             /\ c.ret = CASE stat(path) = ENOTCONN -> "Stale"
                          [] stat(path) \notin {0, ENOTCONN} -> "Unmounted"
                          [] OTHER -> IF mountpoint_q(path) THEN "Active"
                                      ELSE "Unmounted"

\* C15: list_mounts is one step that returns normally with exactly one
\* entry for every directory under the mount base, whether its mount is
\* Unmounted, Active or Stale, each entry with the bucket id, the mount
\* point and the inspector's Active verdict, and it changes nothing.
C15_ListMounts ==
    [][ \A p \in Procs :
          ( /\ call[p].pc = "idle"
            /\ call'[p].op = "list_mounts"
            /\ \A b \in BucketIds : mnt[b] \in MountStates )
          => /\ call'[p].pc = "done"
             /\ call'[p].result = "ok"
             /\ call'[p].ret =
                  { [bucket |-> b, mount_point |-> MountPoint(b),
                     active |-> Inspect(MountPoint(b)) = "Active"] :
                    b \in { x \in BucketIds : mdir[x] } }
             /\ mnt' = mnt /\ mdir' = mdir /\ link' = link ]_vars

\* C16: a mount_bucket call that ends with the message of a failed
\* pre-flight or remote-access check ends in its first step with
\* MountError, before any directory is made, any command is run or any
\* symlink is touched.
C16_FailFast ==
    [][ \A p \in Procs :
          ( /\ call[p].pc # "done" /\ call'[p].pc = "done"
            /\ call'[p].op = "mount_bucket"
            /\ call'[p].message \in CheckMessages )
          => /\ call[p].pc = "idle"
             /\ call'[p].result = "MountError"
             /\ call'[p].mounts = 0 /\ call'[p].unmounts = 0
             /\ mnt' = mnt /\ mdir' = mdir /\ daemon' = daemon
             /\ leftover' = leftover /\ link' = link ]_vars

C16_Witness ==
    \E p \in Procs :
      LET c == call[p]
          b == c.bucket
      IN  /\ Done(p, "mount_bucket") /\ c.result = "MountError"
          /\ c.message = "s3_msg"
          /\ c.pre.mnt = "Unmounted" /\ ~mdir[b]
          /\ link[<<c.root, b>>] = "none"

\* C17: the readiness poll probes the inspector at most PollTimeout times.
\* A probe that reports Active sends the call on to the symlink step; a
\* probe that does not is followed by another, except the last one, after
\* which the call ends with MountError and the symlinks as they were.  So
\* a call that polls always leaves the poll.
C17_PollReady ==
    /\ [][ \A p \in Procs :
             (call[p].pc = "poll" /\ call'[p] # call[p])
             => LET active == _is_mountpoint_active(MountPoint(call[p].bucket))
                    last == call[p].polls + 1 = PollTimeout
                IN  /\ call[p].polls < PollTimeout
                    /\ active => (call'[p].pc = "unlink_old" /\ call'[p].sawActive)
                    /\ (~active /\ ~last)
                         => /\ call'[p].pc = "poll"
                            /\ call'[p].polls = call[p].polls + 1
                    /\ (~active /\ last)
                         => /\ call'[p].pc = "done"
                            /\ call'[p].result = "MountError"
                            /\ call'[p].message = "Mount failed. Check logs"
                            /\ link' = link ]_vars
    /\ \A p \in Procs : (call[p].pc = "poll") ~> (call[p].pc # "poll")

C17_Witness ==
    \E p \in Procs :
      LET c == call[p]
      IN  /\ Done(p, "mount_bucket") /\ c.result = "MountError"
          /\ c.message = "Mount failed. Check logs"
          /\ c.mounts = 1 /\ ~c.sawActive
          /\ c.pre.link[<<c.root, c.bucket>>] = "link_gone"
          /\ link[<<c.root, c.bucket>>] = "link_gone"

\* C18: a mount_bucket call that fails after the inspector reported the
\* mount point Active has run no unmount command and leaves the mount
\* Active; a call that starts with such a failure behind it and the mount
\* Active neither purges the directory nor runs the mount command, and
\* when it returns normally it returns the symlink path.
C18_NoRollback ==
    \A p \in Procs :
      LET c == call[p]
          b == c.bucket
      IN  Done(p, "mount_bucket")
          => /\ (c.result # "ok" /\ c.sawActive)
                  => /\ c.unmounts = 0
                     /\ Inspect(MountPoint(b)) = "Active"
             /\ (c.pre.failed # {} /\ c.pre.mnt = "Active")
                  => /\ c.mounts = 0
                     /\ c.purged = "nothing"
                     /\ c.result = "ok" => (c.sawActive /\ c.ret = SymlinkPath(c.root, b))

C18_Witness ==
    \E p \in Procs, q \in Procs :
      /\ p # q
      /\ Done(q, "mount_bucket") /\ call[q].result = "FileExistsError"
      /\ call[q].sawActive /\ call[q].mounts = 1
      /\ Done(p, "mount_bucket") /\ call[p].result = "ok"
      /\ call[p].pre.mnt = "Active" /\ call[p].mounts = 0
      /\ call[p].pre.failed = {q}
      /\ call[p].bucket = call[q].bucket
      /\ mnt[call[p].bucket] = "Active"

\* C19: the purge in mount_bucket empties the local, unmounted directory
\* only; it never unlinks entries through an Active mount.
C19_PurgeOnlyLocal ==
    \A p \in Procs : call[p].purged # "bucket"

\* C20: mount_bucket replaces an existing symlink at root_dir/bucket in one
\* step: while a call that found a symlink there is under way, a symlink
\* is there, and the symlink step does not fail.
C20_AtomicReplace ==
    \A p \in Procs :
      LET c == call[p]
          cell == <<c.root, c.bucket>>
      IN  ( /\ c.op = "mount_bucket"
            /\ c.pre.link[cell] \in {"link_mp", "link_gone"} )
          => /\ link[cell] \in {"link_mp", "link_gone"}
             /\ c.result # "FileExistsError"

\* C21: two concurrent mount_bucket calls for one bucket are not
\* serialized.  Whether a call goes on to purge and mount is decided by the
\* inspector's answer alone, whatever the other caller is doing, and a call
\* that has got that far runs the mount command; so both callers can find
\* the mount point Unmounted and both run the mount command (the witness).
C21_NotSerialized ==
    [][ \A p \in Procs :
          /\ (call[p].pc = "mount_if_needed" /\ call'[p] # call[p])
               => (call'[p].pc = "purge"
                     <=> ~_is_mountpoint_active(MountPoint(call[p].bucket)))
          /\ (call[p].pc = "do_mount" /\ call'[p] # call[p])
               => call'[p].mounts = call[p].mounts + 1 ]_vars

C21_Witness ==
    \E p \in Procs, q \in Procs :
      /\ p # q
      /\ call[p].op = "mount_bucket" /\ call[q].op = "mount_bucket"
      /\ call[p].bucket = call[q].bucket
      /\ call[p].pre.mnt = "Unmounted" /\ call[q].pre.mnt = "Unmounted"
      /\ call[p].pc = "poll" /\ call[q].pc = "poll"
      /\ call[p].mounts = 1 /\ call[q].mounts = 1
      /\ ~call[p].sawActive /\ ~call[q].sawActive

\* The command variants of the forced unmount on Linux.
CommandVariants == <<"fusermount3", "fusermount">>

\* C22: an unmount_bucket call that gets to the forced unmount ends
\* normally or with UnmountError, whatever makes a variant fail.  It ends
\* with UnmountError only after every variant was tried, the mount and
\* every symlink left as they were; it ends normally with the mount point
\* no longer Active.
C22_UnmountFallback ==
    \A p \in Procs :
      LET c == call[p]
          b == c.bucket
      IN  (Done(p, "unmount_bucket") /\ c.unmounts > 0)
          => /\ c.result \in {"ok", "UnmountError"}
             /\ c.result = "UnmountError"
                  => /\ c.unmounts = Len(CommandVariants)
                     /\ link = c.pre.link
                     /\ mnt[b] = c.pre.mnt
             /\ c.result = "ok" => mnt[b] # "Active"

\* The buckets that a listing shows as active, in the listing's order.
ListedActive(mounts) ==
    LET sel == SelectSeq(mounts, LAMBDA m : m.active)
    IN  [i \in 1..Len(sel) |-> sel[i].bucket]

\* C23: unmount-bucket --all never ends with UnmountError: the failure of
\* one bucket is printed and the loop goes on.  While the loop runs, the
\* buckets attempted are those listed as active among the entries passed,
\* in the listing's order; when the command returns (exit status 0) every
\* bucket listed as active was attempted, and every failure was printed
\* for a bucket that was attempted.
C23_BulkUnmount ==
    \A p \in Procs :
      LET c == call[p]
          r == c.ret
      IN  /\ Done(p, "unmount_all") => c.result # "UnmountError"
          /\ (c.op = "unmount_all" /\ c.pc = "unmount_all")
               => r.attempted = ListedActive(SubSeq(r.mounts, 1, r.next - 1))
          /\ (Done(p, "unmount_all") /\ c.result = "ok")
               => /\ r.attempted = ListedActive(r.mounts)
                  /\ \A i \in 1..Len(r.reported) :
                       \E j \in 1..Len(r.attempted) : r.attempted[j] = r.reported[i]

C23_Witness ==
    \E p \in Procs :
      LET c == call[p]
          r == c.ret
      IN  /\ Done(p, "unmount_all") /\ c.result = "ok"
          /\ Len(r.mounts) = 2 /\ Len(r.attempted) = 2
          /\ r.reported = <<r.attempted[1]>>
          /\ mnt[r.attempted[1]] = "Active"
          /\ mnt[r.attempted[2]] = "Unmounted"

====
